---- MODULE Spec2Model ----
(***************************************************************************)
(* Model of the XTerm adapter component                                    *)
(* (packages/react-console/src/components/SerialConsole/XTerm.tsx).        *)
(*                                                                         *)
(* Each mounted <XTerm> is a session.  The state is the component's refs   *)
(* and closures (terminal.current, the render whose closures the DOM       *)
(* handlers use, the debounce closure's timeout id), the window's          *)
(* listener table and its timer table, each timer with the time left       *)
(* until it is due.  sinceResize is the time since a session's listener    *)
(* last saw a resize event (it stops counting at ResizeWait), burstLen the *)
(* number of events of the burst that event belongs to (each less than     *)
(* ResizeWait after the one before) and burstFits the debounced calls made *)
(* since; `last` records the handler that ran last, its input, and the     *)
(* calls it made on the engine, the fit addon and the window, in order.    *)
(* props are the props the effect's closure holds (the first render's),    *)
(* curProps those of the latest render; tally counts, per session, the     *)
(* engines constructed, the open calls and the dispose calls; typed is     *)
(* what the user typed into the engine and received what the host's onData *)
(* callback was handed.                                                    *)
(***************************************************************************)
EXTENDS Integers, Sequences, FiniteSets, TLC

(* ---- bounds ---- *)
MaxRenders == 2
MaxTimers == 2
MaxKeys == 2
Step == 50

Sessions == {1, 2}

(* The session followed when one is followed alone. *)
Solo == {1}

(* ---- program constants ---- *)
DefaultCols == 80
DefaultRows == 25
DefaultLetterSpacing == 0

(* The wait handed to debounce (line 102), in ms. *)
ResizeWait == 100

(* An optional value: <<>> is undefined, <<v>> is v. *)
Undefined == <<>>

(* The props a host passes: cols, rows and letterSpacing, undefined when   *)
(* the host omits one, and whether it passes onData and onTitleChanged.    *)
NoProps ==
  [cols |-> Undefined, rows |-> Undefined, letterSpacing |-> Undefined,
   onData |-> FALSE, onTitleChanged |-> FALSE]

PropsSet ==
  { NoProps,
    [NoProps EXCEPT !.rows = <<0>>, !.letterSpacing = <<2>>, !.onData = TRUE],
    [NoProps EXCEPT !.cols = <<3>>, !.rows = <<2>>, !.onData = TRUE,
                    !.onTitleChanged = TRUE],
    [NoProps EXCEPT !.cols = <<3>>, !.rows = <<2>>, !.letterSpacing = <<2>>] }

(* What fitAddon.proposeDimensions() may return. *)
Geometries == { Undefined, <<[rows |-> 4, cols |-> 5]>> }

(* Strings the transport hands to the Control Handle. *)
(* The props of the sessions that share a page: one that fits itself to   *)
(* the viewport and one with its rows pinned.                              *)
PagePropsSet == {p \in PropsSet : p.letterSpacing # Undefined}

DataSet == {"x"}
Reasons == {"", "boom"}

(* What the user types into the terminal. *)
Keys == {"a", "b"}

VARIABLES phase, props, renders, terminal, listeners, timers, timeout,
          nextTimerId, sinceResize, burstLen, burstFits, last,
          curProps, tally, typed, received

vars == <<phase, props, renders, terminal, listeners, timers, timeout,
          nextTimerId, sinceResize, burstLen, burstFits, last,
          curProps, tally, typed, received>>

(* The keystrokes typed and forwarded. *)
keys == <<typed, received>>

(* ---- destructuring defaults (lines 27-36) ---- *)
WithDefault(opt, d) == IF opt = Undefined THEN d ELSE opt[1]

Cols(s) == WithDefault(props[s].cols, DefaultCols)

Rows(s) == WithDefault(props[s].rows, DefaultRows)

LetterSpacing(s) == WithDefault(props[s].letterSpacing, DefaultLetterSpacing)

(* The test of line 104 the wrong way round. *)
AutoFitInverted(rows) == rows # 0

(* `if (!rows)` on line 104: rows is a number, falsy when 0. *)
AutoFit(rows) == rows = 0

(* canUseDOM: effects only run where window and document exist. *)
canUseDOM == TRUE

(* ---- the engine (xterm Terminal) ---- *)
NewTerminal(cols, rows, letterSpacing) ==
  [cols |-> cols, rows |-> rows, opened |-> FALSE, disposed |-> FALSE,
   letterSpacing |-> letterSpacing, dataListeners |-> 0, titleListeners |-> 0]

(* A mount that leaves the constructor's letter spacing alone. *)
AfterSetOptionSkipped(e) == e

(* terminal.current.setOption('letterSpacing', 0) of line 81. *)
AfterSetOption(e) == [e EXCEPT !.letterSpacing = 0]

(* The number of calls of operation op among ops. *)
CountOps(ops, op) == Cardinality({i \in DOMAIN ops : ops[i].op = op})

(* `if (terminal.current)` *)
HasTerminal(s) == terminal[s] # Undefined

Live(s) == HasTerminal(s) /\ ~terminal[s][1].disposed

(* Terminal.resize(columns, rows) of xterm; a disposed engine is left as is. *)
TerminalResize(e, columns, rows) ==
  IF e.disposed THEN e ELSE [e EXCEPT !.cols = columns, !.rows = rows]

(* One call made by a handler: the operation, the session whose engine,    *)
(* addon or listener it is made for, its arguments, and whether the        *)
(* session's engine was live (constructed, not disposed) when it was made. *)
Call(op, s, args, live) == [op |-> op, sess |-> s, args |-> args, live |-> live]

(* ---- listener identities ---- *)
(* resizeListener is created once, by the effect (line 102). *)
ResizeListener(s) == [type |-> "resize", fn |-> <<"resizeListener", s, 1>>]

(* onBeforeUnload is a new function in every render (line 123). *)
OnBeforeUnload(s, k) == [type |-> "beforeunload", fn |-> <<"onBeforeUnload", s, k>>]

UnloadHandlers(s) ==
  {l \in listeners : l.type = "beforeunload" /\ l.fn[2] = s}

ResizeSubscribers ==
  {s \in Sessions : ResizeListener(s) \in listeners}

(* ---- debounce(func, wait) of @patternfly/react-core ---- *)
(* A debounce that schedules without cancelling. *)
DebouncedCallNoCancel(tm, s, old, new, wait) ==
  tm \cup {[id |-> new, sess |-> s, left |-> wait]}

(* One call of the debounced function: the pending call, if any, is        *)
(* cancelled and a new one is scheduled, due in wait ms.                   *)
DebouncedCall(tm, s, old, new, wait) ==
  {x \in tm : x.id # old} \cup {[id |-> new, sess |-> s, left |-> wait]}

PendingTimers(s) == {x \in timers : x.sess = s}

(* ---- onWindowResize (lines 83-88) ---- *)
(* An onWindowResize without the `if (geometry)` test. *)
OnWindowResizeOpsUnguarded(s, g, live) ==
  <<Call("proposeDimensions", s, <<>>, live),
    Call("resize", s, IF g # Undefined THEN <<g[1].rows, g[1].cols>> ELSE <<>>, live)>>

OnWindowResizeOps(s, g, live) ==
  <<Call("proposeDimensions", s, <<>>, live)>> \o
  (IF g # Undefined
     THEN <<Call("resize", s, <<g[1].rows, g[1].cols>>, live)>>
     ELSE <<>>)

OnWindowResizeTerminal(e, g) ==
  IF g # Undefined THEN TerminalResize(e, g[1].rows, g[1].cols) ELSE e

Init ==
  /\ phase = [s \in Sessions |-> "unmounted"]
  /\ props = [s \in Sessions |-> NoProps]
  /\ curProps = [s \in Sessions |-> NoProps]
  /\ tally = [s \in Sessions |-> [built |-> 0, opened |-> 0, disposals |-> 0]]
  /\ typed = [s \in Sessions |-> <<>>]
  /\ received = [s \in Sessions |-> <<>>]
  /\ renders = [s \in Sessions |-> 0]
  /\ terminal = [s \in Sessions |-> Undefined]
  /\ listeners = {}
  /\ timers = {}
  /\ timeout = [s \in Sessions |-> 0]
  /\ nextTimerId = 1
  /\ sinceResize = [s \in Sessions |-> ResizeWait]
  /\ burstLen = [s \in Sessions |-> 0]
  /\ burstFits = [s \in Sessions |-> 0]
  /\ last = [act |-> "init", sess |-> 0, arg |-> <<>>, ops |-> <<>>]

(* First render and commit (lines 27-67, 143): the props are captured,    *)
(* the Control Handle is handed to innerRef, the surface exists.          *)
Render(s, p) ==
  /\ phase[s] = "unmounted"
  /\ phase' = [phase EXCEPT ![s] = "committed"]
  /\ props' = [props EXCEPT ![s] = p]
  /\ curProps' = [curProps EXCEPT ![s] = p]
  /\ renders' = [renders EXCEPT ![s] = 1]
  /\ last' = [act |-> "Render", sess |-> s, arg |-> <<>>, ops |-> <<>>]
  /\ UNCHANGED <<terminal, listeners, timers, timeout, nextTimerId,
                 sinceResize, burstLen, burstFits, tally, keys>>

(* The effect of the first render (lines 69-110): the engine is built with *)
(* the captured cols and rows, attached to the surface, and, in auto-fit   *)
(* mode, subscribed to the window's resize signal and fitted once.  g is   *)
(* what proposeDimensions() returns for that fit.                          *)
(* The wiring of lines 90-96. *)
WiringOps(s) ==
  (IF props[s].onData THEN <<Call("onData", s, <<>>, TRUE)>> ELSE <<>>) \o
  (IF props[s].onTitleChanged
     THEN <<Call("onTitleChange", s, <<>>, TRUE)>> ELSE <<>>)

(* A mount that fits and focuses first and attaches the engine last. *)
EffectOpsOpensLate(s, g) ==
  <<Call("new Terminal", s, <<Cols(s), Rows(s), LetterSpacing(s)>>, FALSE),
    Call("setOption", s, <<"letterSpacing", 0>>, TRUE)>> \o
  WiringOps(s) \o
  <<Call("loadAddon", s, <<>>, TRUE)>> \o
  (IF AutoFit(Rows(s))
     THEN <<Call("addEventListener", s, <<"resize">>, TRUE)>>
          \o OnWindowResizeOps(s, g, TRUE)
     ELSE <<>>) \o
  <<Call("focus", s, <<>>, TRUE), Call("open", s, <<>>, TRUE)>>

EffectOps(s, g) ==
  <<Call("new Terminal", s, <<Cols(s), Rows(s), LetterSpacing(s)>>, FALSE),
    Call("setOption", s, <<"letterSpacing", 0>>, TRUE)>> \o
  WiringOps(s) \o
  <<Call("loadAddon", s, <<>>, TRUE),
    Call("open", s, <<>>, TRUE)>> \o
  (IF AutoFit(Rows(s))
     THEN (IF canUseDOM
             THEN <<Call("addEventListener", s, <<"resize">>, TRUE)>>
             ELSE <<>>) \o OnWindowResizeOps(s, g, TRUE)
     ELSE <<>>) \o
  <<Call("focus", s, <<>>, TRUE)>>

EffectTerminal(s, g) ==
  LET e == [AfterSetOption(NewTerminal(Cols(s), Rows(s), LetterSpacing(s)))
              EXCEPT !.dataListeners = IF props[s].onData THEN 1 ELSE 0,
                     !.titleListeners = IF props[s].onTitleChanged THEN 1 ELSE 0,
                     !.opened = TRUE]
  IN  IF AutoFit(Rows(s)) THEN OnWindowResizeTerminal(e, g) ELSE e

EffectListeners(ls, s) ==
  IF AutoFit(Rows(s)) /\ canUseDOM THEN ls \cup {ResizeListener(s)} ELSE ls

Effect(s, g) ==
  /\ phase[s] = "committed"
  /\ phase' = [phase EXCEPT ![s] = "mounted"]
  /\ terminal' = [terminal EXCEPT ![s] = <<EffectTerminal(s, g)>>]
  /\ listeners' = EffectListeners(listeners, s)
  /\ tally' = [tally EXCEPT
                 ![s].built = @ + CountOps(EffectOps(s, g), "new Terminal"),
                 ![s].opened = @ + CountOps(EffectOps(s, g), "open")]
  /\ last' = [act |-> "Effect", sess |-> s,
              arg |-> IF AutoFit(Rows(s)) THEN g ELSE <<>>,
              ops |-> EffectOps(s, g)]
  /\ UNCHANGED <<props, renders, timers, timeout, nextTimerId,
                 sinceResize, burstLen, burstFits, curProps, keys>>

(* The host renders the mounted component again: onBeforeUnload, onFocusIn *)
(* and onFocusOut are new functions, and the surface's onFocus and onBlur  *)
(* are the new ones (lines 123-143).  The host may pass other props, p.    *)
(* A re-render that hands the new geometry and letter spacing to the       *)
(* engine.                                                                 *)
RerenderTerminalReconfigures(e, p) ==
  [e EXCEPT !.cols = WithDefault(p.cols, DefaultCols),
            !.rows = WithDefault(p.rows, DefaultRows),
            !.letterSpacing = WithDefault(p.letterSpacing, DefaultLetterSpacing)]

(* The effect's dependency list is empty (line 119): it does not run       *)
(* again, and nothing else in the render touches the engine.               *)
RerenderTerminal(e, p) == e

Rerender(s, p) ==
  /\ phase[s] = "mounted"
  /\ renders[s] < MaxRenders
  /\ renders' = [renders EXCEPT ![s] = @ + 1]
  /\ curProps' = [curProps EXCEPT ![s] = p]
  /\ terminal' = [terminal EXCEPT ![s] = <<RerenderTerminal(terminal[s][1], p)>>]
  /\ last' = [act |-> "Rerender", sess |-> s, arg |-> <<>>, ops |-> <<>>]
  /\ UNCHANGED <<phase, props, listeners, timers, timeout,
                 nextTimerId, sinceResize, burstLen, burstFits, tally, keys>>

(* onFocusIn of the latest render (lines 133-135). *)
FocusInListeners(ls, s, k) == ls \cup {OnBeforeUnload(s, k)}

OnFocusIn(s) ==
  /\ phase[s] = "mounted"
  /\ listeners' = FocusInListeners(listeners, s, renders[s])
  /\ last' = [act |-> "onFocusIn", sess |-> s, arg |-> <<>>,
              ops |-> <<Call("addEventListener", s, <<"beforeunload">>, Live(s))>>]
  /\ UNCHANGED <<phase, props, renders, terminal, timers, timeout,
                 nextTimerId, sinceResize, burstLen, burstFits,
                 curProps, tally, keys>>

(* onFocusOut of render k (lines 137-139). *)
FocusOutListeners(ls, s, k) == ls \ {OnBeforeUnload(s, k)}

OnFocusOut(s) ==
  /\ phase[s] = "mounted"
  /\ listeners' = FocusOutListeners(listeners, s, renders[s])
  /\ last' = [act |-> "onFocusOut", sess |-> s, arg |-> <<>>,
              ops |-> <<Call("removeEventListener", s, <<"beforeunload">>, Live(s))>>]
  /\ UNCHANGED <<phase, props, renders, terminal, timers, timeout,
                 nextTimerId, sinceResize, burstLen, burstFits,
                 curProps, tally, keys>>

(* The window dispatches one resize event: every attached resizeListener   *)
(* runs, in the order of the sessions; each is a call of the debounced     *)
(* onWindowResize (line 102).                                              *)
RECURSIVE Dispatch(_, _, _)
Dispatch(tm, S, k) ==
  IF S = {} THEN tm
  ELSE LET s == CHOOSE x \in S : \A y \in S : x <= y
       IN  Dispatch(DebouncedCall(tm, s, timeout[s], k, ResizeWait),
                    S \ {s}, k + 1)

NewTimerId(s) ==
  nextTimerId + Cardinality({u \in ResizeSubscribers : u < s})

WindowResize ==
  /\ nextTimerId + Cardinality(ResizeSubscribers) <= MaxTimers + 1
  /\ timers' = Dispatch(timers, ResizeSubscribers, nextTimerId)
  /\ timeout' = [s \in Sessions |->
                   IF s \in ResizeSubscribers THEN NewTimerId(s) ELSE timeout[s]]
  /\ nextTimerId' = nextTimerId + Cardinality(ResizeSubscribers)
  /\ sinceResize' = [s \in Sessions |->
                   IF s \in ResizeSubscribers THEN 0 ELSE sinceResize[s]]
  /\ burstLen' = [s \in Sessions |->
                   IF s \notin ResizeSubscribers THEN burstLen[s]
                   ELSE IF sinceResize[s] < ResizeWait THEN burstLen[s] + 1 ELSE 1]
  /\ burstFits' = [s \in Sessions |->
                   IF s \in ResizeSubscribers THEN 0 ELSE burstFits[s]]
  /\ last' = [act |-> "WindowResize", sess |-> 0, arg |-> <<>>, ops |-> <<>>]
  /\ UNCHANGED <<phase, props, renders, terminal, listeners,
                 curProps, tally, keys>>

(* A timer of the debounce comes due: onWindowResize runs (lines 83-88).   *)
(* terminal.current still refers to the engine after it is disposed.       *)
TimerFire(x, g) ==
  /\ x \in timers
  /\ x.left = 0
  /\ timers' = timers \ {x}
  /\ terminal' = [terminal EXCEPT
                    ![x.sess] = <<OnWindowResizeTerminal(terminal[x.sess][1], g)>>]
  /\ burstFits' = [burstFits EXCEPT ![x.sess] = @ + 1]
  /\ last' = [act |-> "TimerFire", sess |-> x.sess, arg |-> g,
              ops |-> OnWindowResizeOps(x.sess, g, Live(x.sess))]
  /\ UNCHANGED <<phase, props, renders, listeners, timeout, nextTimerId,
                 sinceResize, burstLen, curProps, tally, keys>>

(* Step ms pass. *)
Tick ==
  /\ timers' = {[x EXCEPT !.left = IF @ > Step THEN @ - Step ELSE 0] : x \in timers}
  /\ sinceResize' = [s \in Sessions |->
                   IF sinceResize[s] + Step < ResizeWait
                     THEN sinceResize[s] + Step ELSE ResizeWait]
  /\ last' = [act |-> "Tick", sess |-> 0, arg |-> <<>>, ops |-> <<>>]
  /\ UNCHANGED <<phase, props, renders, terminal, listeners, timeout,
                 nextTimerId, burstLen, burstFits, curProps, tally, keys>>

(* A cleanup that forgets the resize listener. *)
CleanupListenersKeepsResize(ls, s) == FocusOutListeners(ls, s, 1)

(* The effect's cleanup (lines 112-118), run when the component unmounts.  *)
(* onFocusOut there is the first render's, so it removes the first         *)
(* render's onBeforeUnload.                                                *)
CleanupListeners(ls, s) ==
  FocusOutListeners(IF canUseDOM THEN ls \ {ResizeListener(s)} ELSE ls, s, 1)

(* A cleanup that disposes the engine twice. *)
CleanupOpsDisposesTwice(s) ==
  <<Call("dispose", s, <<>>, Live(s)), Call("dispose", s, <<>>, FALSE),
    Call("removeEventListener", s, <<"resize">>, FALSE),
    Call("removeEventListener", s, <<"beforeunload">>, FALSE)>>

CleanupOps(s) ==
  <<Call("dispose", s, <<>>, Live(s))>> \o
  (IF canUseDOM
     THEN <<Call("removeEventListener", s, <<"resize">>, FALSE)>>
     ELSE <<>>) \o
  <<Call("removeEventListener", s, <<"beforeunload">>, FALSE)>>

Unmount(s) ==
  /\ phase[s] = "mounted"
  /\ phase' = [phase EXCEPT ![s] = "disposed"]
  /\ terminal' = [terminal EXCEPT ![s] = <<[terminal[s][1] EXCEPT !.disposed = TRUE]>>]
  /\ listeners' = CleanupListeners(listeners, s)
  /\ tally' = [tally EXCEPT ![s].disposals = @ + CountOps(CleanupOps(s), "dispose")]
  /\ last' = [act |-> "Unmount", sess |-> s, arg |-> <<>>, ops |-> CleanupOps(s)]
  /\ UNCHANGED <<props, renders, timers, timeout, nextTimerId,
                 sinceResize, burstLen, burstFits, curProps, keys>>

(* ---- keystrokes (lines 90-92) ---- *)
(* An engine that hands the callback each keystroke twice. *)
ForwardedTwice(e, k) ==
  [i \in 1..(2 * e.dataListeners) |-> k]

(* The engine reports a keystroke to every callback wired with onData:     *)
(* what those callbacks are handed, in order.                              *)
Forwarded(e, k) ==
  [i \in 1..e.dataListeners |-> k]

(* The user types k into the mounted terminal. *)
Keystroke(s, k) ==
  /\ phase[s] = "mounted"
  /\ Len(typed[s]) < MaxKeys
  /\ typed' = [typed EXCEPT ![s] = Append(@, k)]
  /\ received' = [received EXCEPT ![s] = @ \o Forwarded(terminal[s][1], k)]
  /\ last' = [act |-> "Keystroke", sess |-> s, arg |-> <<k>>,
              ops |-> [i \in 1..Len(Forwarded(terminal[s][1], k)) |->
                         Call("onData callback", s, <<k>>, Live(s))]]
  /\ UNCHANGED <<phase, props, renders, terminal, listeners, timers, timeout,
                 nextTimerId, sinceResize, burstLen, burstFits,
                 curProps, tally>>

(* ---- the Control Handle (lines 40-67) ---- *)
(* The host holds the handle from the first commit on, and may keep it     *)
(* after the component is gone.                                            *)
HandleHeld(s) == phase[s] # "unmounted"

(* focusTerminal without the `if (terminal.current)` test. *)
FocusTerminalOpsUnguarded(s) == <<Call("focus", s, <<>>, Live(s))>>

FocusTerminalOps(s) ==
  IF HasTerminal(s) THEN <<Call("focus", s, <<>>, Live(s))>> ELSE <<>>

FocusTerminal(s) ==
  /\ HandleHeld(s)
  /\ last' = [act |-> "focusTerminal", sess |-> s, arg |-> <<>>, ops |-> FocusTerminalOps(s)]
  /\ UNCHANGED <<phase, props, renders, terminal, listeners, timers, timeout,
                 nextTimerId, sinceResize, burstLen, burstFits,
                 curProps, tally, keys>>

OnDataReceivedOps(s, data) ==
  IF HasTerminal(s) THEN <<Call("write", s, <<data>>, Live(s))>> ELSE <<>>

OnDataReceived(s, data) ==
  /\ HandleHeld(s)
  /\ last' = [act |-> "onDataReceived", sess |-> s, arg |-> <<data>>, ops |-> OnDataReceivedOps(s, data)]
  /\ UNCHANGED <<phase, props, renders, terminal, listeners, timers, timeout,
                 nextTimerId, sinceResize, burstLen, burstFits,
                 curProps, tally, keys>>

(* The line without the default text. *)
ConnectionClosedLineNoDefault(reason) ==
  <<"ESC[31m", reason, "ESC[m", "CR", "LF">>

(* The template string of line 63, as the pieces it is made of. *)
ConnectionClosedLine(reason) ==
  <<"ESC[31m", IF reason = "" THEN "disconnected" ELSE reason, "ESC[m", "CR", "LF">>

(* refresh(terminal.current.rows, terminal.current.rows) of line 64. *)
RefreshRange(e) == <<e.rows, e.rows>>

OnConnectionClosedOps(s, reason) ==
  IF HasTerminal(s)
    THEN <<Call("write", s, <<ConnectionClosedLine(reason)>>, Live(s)),
           Call("refresh", s, RefreshRange(terminal[s][1]), Live(s))>>
    ELSE <<>>

OnConnectionClosed(s, reason) ==
  /\ HandleHeld(s)
  /\ last' = [act |-> "onConnectionClosed", sess |-> s, arg |-> <<reason>>,
              ops |-> OnConnectionClosedOps(s, reason)]
  /\ UNCHANGED <<phase, props, renders, terminal, listeners, timers, timeout,
                 nextTimerId, sinceResize, burstLen, burstFits,
                 curProps, tally, keys>>

(* One session, every event it can see. *)
Next ==
  \/ \E s \in Solo, p \in PropsSet : Render(s, p)
  \/ \E s \in Solo, g \in Geometries : Effect(s, g)
  \/ \E s \in Solo, p \in PropsSet : Rerender(s, p)
  \/ \E s \in Solo : OnFocusIn(s)
  \/ \E s \in Solo : OnFocusOut(s)
  \/ WindowResize
  \/ \E x \in timers, g \in Geometries : TimerFire(x, g)
  \/ Tick
  \/ \E s \in Solo : Unmount(s)
  \/ \E s \in Solo : FocusTerminal(s)
  \/ \E s \in Solo, d \in DataSet : OnDataReceived(s, d)
  \/ \E s \in Solo, r \in Reasons : OnConnectionClosed(s, r)
  \/ \E s \in Solo, k \in Keys : Keystroke(s, k)

Spec == Init /\ [][Next]_vars

(* Several sessions on one page, sharing the window: their mounts,         *)
(* renders, focus changes and unmounts, and the window's resize events,    *)
(* in any interleaving.                                                    *)
NextSessions ==
  \/ \E s \in Sessions, p \in PagePropsSet : Render(s, p)
  \/ \E s \in Sessions, g \in Geometries : Effect(s, g)
  \/ \E s \in Sessions : Rerender(s, curProps[s])
  \/ \E s \in Sessions : OnFocusIn(s)
  \/ \E s \in Sessions : OnFocusOut(s)
  \/ WindowResize
  \/ \E x \in timers, g \in Geometries : TimerFire(x, g)
  \/ Tick
  \/ \E s \in Sessions : Unmount(s)

SpecSessions == Init /\ [][NextSessions]_vars

TypeOK ==
  /\ phase \in [Sessions -> {"unmounted", "committed", "mounted", "disposed"}]
  /\ props \in [Sessions -> PropsSet]
  /\ renders \in [Sessions -> 0..MaxRenders]
  /\ sinceResize \in [Sessions -> 0..ResizeWait]
  /\ \A s \in Sessions : HasTerminal(s) <=> phase[s] \in {"mounted", "disposed"}

(* ---- what the claims speak of ---- *)
HandleActs == {"focusTerminal", "onDataReceived", "onConnectionClosed"}

(* The positions of the last handler's calls of operation op. *)
OpsNamed(op) == {i \in DOMAIN last.ops : last.ops[i].op = op}

ExplicitTruthyRows(s) == props[s].rows # Undefined /\ props[s].rows[1] # 0

ExplicitFalsyRows(s) == props[s].rows # Undefined /\ props[s].rows[1] = 0

(* C1: no fit computation and no engine resize call is made once the       *)
(* engine is disposed, whatever resize events came before the unmount.     *)
C1_NoFitAfterDispose ==
  \A i \in DOMAIN last.ops :
    last.ops[i].op \in {"proposeDimensions", "resize"} => last.ops[i].live

(* C2: a Control Handle call made after the session is disposed invokes    *)
(* no engine operation.                                                    *)
C2_HandleNoOpAfterDispose ==
  (last.act \in HandleActs /\ phase[last.sess] = "disposed") => last.ops = <<>>

(* C3: a session never has more than one page-unload handler attached; a   *)
(* focus gain leaves exactly one attached and a focus loss leaves none.    *)
C3_OneUnloadHandler ==
  \A s \in Sessions :
    /\ Cardinality(UnloadHandlers(s)) <= 1
    /\ (last.act = "onFocusIn" /\ last.sess = s)
         => Cardinality(UnloadHandlers(s)) = 1
    /\ (last.act = "onFocusOut" /\ last.sess = s) => UnloadHandlers(s) = {}

(* C4: once a session is unmounted, none of its page-unload handlers       *)
(* remains attached, also when it was unmounted while it held the focus.   *)
C4_UnmountDetachesUnloadHandler ==
  \A s \in Sessions : phase[s] = "disposed" => UnloadHandlers(s) = {}

(* C5: the resize listeners attached to the window are exactly those of    *)
(* the mounted auto-fit sessions, one each, however the sessions' mounts   *)
(* and unmounts interleave.                                                *)
C5_ResizeSubscriptions ==
  LET fitting == {s \in Sessions : phase[s] = "mounted" /\ Rows(s) = 0}
  IN  /\ {l \in listeners : l.type = "resize"} = {ResizeListener(s) : s \in fitting}
      /\ Cardinality({l \in listeners : l.type = "resize"}) = Cardinality(fitting)

(* C5 witness: of two auto-fit sessions one is unmounted, the other is     *)
(* still mounted and subscribed.                                           *)
C5_Witness ==
  /\ phase[1] = "disposed" /\ Rows(1) = 0
  /\ phase[2] = "mounted" /\ Rows(2) = 0
  /\ ResizeListener(2) \in listeners

(* C6: with an explicit truthy rows value the engine has exactly the       *)
(* configured rows and columns, the session has no resize subscription     *)
(* and no pending debounced call, and no handler makes a fit computation   *)
(* or an engine resize for it.                                             *)
C6_ExplicitRowsNoAutoFit ==
  \A s \in Sessions :
    (ExplicitTruthyRows(s) /\ HasTerminal(s)) =>
      /\ terminal[s][1].rows = props[s].rows[1]
      /\ terminal[s][1].cols = WithDefault(props[s].cols, 80)
      /\ ResizeListener(s) \notin listeners
      /\ PendingTimers(s) = {}
      /\ \A i \in DOMAIN last.ops :
           last.ops[i].sess = s =>
             /\ last.ops[i].op \notin {"proposeDimensions", "resize"}
             /\ last.ops[i] # Call("addEventListener", s, <<"resize">>, TRUE)

(* C6 witness: the window is resized while a session with explicit rows is *)
(* mounted.                                                                *)
C6_Witness ==
  /\ last.act = "WindowResize"
  /\ phase[1] = "mounted"
  /\ ExplicitTruthyRows(1)

(* C7 as stated: with rows unset, the mount makes exactly one fit          *)
(* computation.                                                            *)
C7_FitWhenRowsUnset ==
  (last.act = "Effect" /\ props[last.sess].rows = Undefined)
    => Cardinality(OpsNamed("proposeDimensions")) = 1

(* C7 amended: with rows explicitly falsy (0), the mount makes exactly one *)
(* fit computation, and makes it before the session's listener has         *)
(* handled any resize event.                                               *)
C7_FitWhenRowsFalsy ==
  (last.act = "Effect" /\ ExplicitFalsyRows(last.sess)) =>
    /\ Cardinality(OpsNamed("proposeDimensions")) = 1
    /\ timeout[last.sess] = 0
    /\ burstLen[last.sess] = 0
    /\ PendingTimers(last.sess) = {}

C7_Witness ==
  last.act = "Effect" /\ ExplicitFalsyRows(1) /\ phase[1] = "mounted"

(* C8: a session has at most one debounced call pending; the call that a   *)
(* burst of resize events leaves pending stays pending until it is made,   *)
(* it is made once, and not before 100 ms have passed since the burst's    *)
(* last event.                                                             *)
C8_Debounce ==
  \A s \in Sessions :
    IF timeout[s] = 0
      THEN PendingTimers(s) = {} /\ burstFits[s] = 0
      ELSE \/ burstFits[s] = 0 /\ Cardinality(PendingTimers(s)) = 1
           \/ /\ burstFits[s] = 1
              /\ PendingTimers(s) = {}
              /\ sinceResize[s] >= 100

(* C8 witness: a burst of two events or more has ended with its one call.  *)
C8_Witness ==
  /\ last.act = "TimerFire"
  /\ burstLen[1] >= 2
  /\ burstFits[1] = 1

(* C9: the refresh onConnectionClosed asks of a live engine runs from the  *)
(* first visible row, 0, to the last, rows - 1.                            *)
C9_RefreshFullRange ==
  (last.act = "onConnectionClosed" /\ phase[last.sess] = "mounted") =>
    /\ Cardinality(OpsNamed("refresh")) = 1
    /\ \A i \in OpsNamed("refresh") :
         last.ops[i].args = <<0, terminal[last.sess][1].rows - 1>>

(* C10: onConnectionClosed(reason) on a live session makes two calls: a    *)
(* write of the error prefix, the reason (or "disconnected" when it is     *)
(* empty), the style reset and CR LF; then the refresh.                    *)
C10_ConnectionClosedLine ==
  (last.act = "onConnectionClosed" /\ phase[last.sess] = "mounted") =>
    /\ Len(last.ops) = 2
    /\ last.ops[1].op = "write"
    /\ last.ops[2].op = "refresh"
    /\ last.arg = <<"">>
         => last.ops[1].args = <<<<"ESC[31m", "disconnected", "ESC[m", "CR", "LF">>>>
    /\ last.arg # <<"">>
         => last.ops[1].args = <<<<"ESC[31m", last.arg[1], "ESC[m", "CR", "LF">>>>

(* C10 witness: the connection of a live session is closed with a reason. *)
C10_WitnessReason ==
  /\ last.act = "onConnectionClosed"
  /\ phase[1] = "mounted"
  /\ last.arg = <<"boom">>

(* C11: a Control Handle call made after the first commit and before the   *)
(* effect has constructed the engine makes no call and changes nothing.    *)
C11_HandleBeforeEngine ==
  [][(last'.act \in HandleActs /\ phase[last'.sess] = "committed") =>
       /\ last'.ops = <<>>
       /\ UNCHANGED <<phase, props, renders, terminal, listeners, timers,
                      timeout, nextTimerId, curProps, tally, typed, received>>]_vars

C11_Witness ==
  /\ last.act \in HandleActs
  /\ phase[last.sess] = "committed"
  /\ ~HasTerminal(last.sess)

(* C12: with an onData callback given at mount, the callback has been      *)
(* handed exactly the keystrokes typed, each once and in the order typed,  *)
(* through the one wiring the mount made; without one, nothing is wired    *)
(* and nothing is handed on.                                               *)
C12_KeystrokesForwarded ==
  \A s \in Sessions :
    /\ received[s] = (IF props[s].onData THEN typed[s] ELSE <<>>)
    /\ HasTerminal(s) =>
         terminal[s][1].dataListeners = (IF props[s].onData THEN 1 ELSE 0)
    /\ (last.act = "Effect" /\ last.sess = s) =>
         Cardinality(OpsNamed("onData")) = (IF props[s].onData THEN 1 ELSE 0)

(* C12 witness: two different keys were typed and handed on. *)
C12_Witness ==
  /\ props[1].onData
  /\ typed[1] = <<"a", "b">>
  /\ last.act = "Keystroke"

(* C13: the unmount leaves no debounced call pending, and makes its calls  *)
(* in the order dispose, detach the resize listener, detach the unload     *)
(* handler.                                                                *)
C13_TeardownOrder ==
  last.act = "Unmount" =>
    /\ PendingTimers(last.sess) = {}
    /\ Len(last.ops) = 3
    /\ last.ops[1].op = "dispose"
    /\ last.ops[2] = Call("removeEventListener", last.sess, <<"resize">>, FALSE)
    /\ last.ops[3] = Call("removeEventListener", last.sess, <<"beforeunload">>, FALSE)

(* C14: a re-render of the mounted component, whatever props it brings,    *)
(* makes no call on the engine or the window and leaves the engine, its    *)
(* wiring, the listeners and the props the session was created with as     *)
(* they were.                                                              *)
C14_RerenderFrozen ==
  [][last'.act = "Rerender" =>
       /\ last'.ops = <<>>
       /\ UNCHANGED <<terminal, listeners, tally, props, timers>>]_vars

(* C14 witness: a session created with pinned rows and no callback is      *)
(* rendered again with auto-fit rows, a letter spacing and a callback.     *)
C14_Witness ==
  /\ last.act = "Rerender"
  /\ props[1].rows = <<2>> /\ ~props[1].onData
  /\ curProps[1].rows = <<0>> /\ curProps[1].onData

(* C15: a session has constructed one engine from its mount on and none    *)
(* before, has disposed it once from its unmount on and not before, and    *)
(* only the mount constructs and only the unmount disposes.                *)
C15_OneEngine ==
  /\ \A s \in Sessions :
       /\ tally[s].built = (IF phase[s] \in {"mounted", "disposed"} THEN 1 ELSE 0)
       /\ tally[s].disposals = (IF phase[s] = "disposed" THEN 1 ELSE 0)
  /\ OpsNamed("new Terminal") # {} => last.act = "Effect"
  /\ OpsNamed("dispose") # {} => last.act = "Unmount"
  /\ last.act = "Effect" => Cardinality(OpsNamed("new Terminal")) = 1
  /\ last.act = "Unmount" => Cardinality(OpsNamed("dispose")) = 1

C15_Witness ==
  /\ last.act = "Unmount"
  /\ phase[1] = "disposed"
  /\ tally[1].disposals = 1

(* C16: a session calls open once, in its mount, after the constructor,    *)
(* and every write, focus, refresh or resize call on its engine comes      *)
(* after that open.                                                        *)
C16_OpenFirst ==
  /\ \A s \in Sessions :
       tally[s].opened = (IF phase[s] \in {"mounted", "disposed"} THEN 1 ELSE 0)
  /\ OpsNamed("open") # {} => last.act = "Effect"
  /\ \A i \in DOMAIN last.ops :
       /\ last.ops[i].op = "open" =>
            \E j \in 1..(i - 1) : last.ops[j].op = "new Terminal"
       /\ last.ops[i].op \in {"write", "focus", "refresh", "resize"} =>
            IF last.act = "Effect"
              THEN \E j \in 1..(i - 1) : last.ops[j].op = "open"
              ELSE tally[last.ops[i].sess].opened = 1

(* C16 witness: a mount that fits the engine: open, then resize and focus. *)
C16_Witness ==
  /\ last.act = "Effect"
  /\ OpsNamed("resize") # {}
  /\ OpsNamed("focus") # {}

(* C17: after a fit that yields a geometry, the live engine has the        *)
(* geometry's rows as its rows and the geometry's columns as its columns.  *)
C17_ResizeGeometry ==
  (last.act \in {"Effect", "TimerFire"} /\ last.arg # Undefined /\ Live(last.sess)) =>
    /\ terminal[last.sess][1].rows = last.arg[1].rows
    /\ terminal[last.sess][1].cols = last.arg[1].cols

(* C18: a fit that yields no geometry makes no resize call and leaves the  *)
(* engine and the listeners as they were: a debounced fit makes the one    *)
(* proposeDimensions call and nothing else, a mount goes on to focus the   *)
(* engine, sized as constructed and subscribed to the resize signal.       *)
C18_NoGeometryNoOp ==
  [][/\ (last'.act = "TimerFire" /\ last'.arg = Undefined) =>
          /\ last'.ops = <<Call("proposeDimensions", last'.sess, <<>>,
                                Live(last'.sess))>>
          /\ UNCHANGED <<terminal, listeners, phase>>
     /\ (last'.act = "Effect" /\ last'.arg = Undefined /\ props[last'.sess].rows = <<0>>) =>
          /\ \A i \in DOMAIN last'.ops : last'.ops[i].op # "resize"
          /\ last'.ops[Len(last'.ops)].op = "focus"
          /\ terminal'[last'.sess][1].rows = 0
          /\ terminal'[last'.sess][1].cols = WithDefault(props[last'.sess].cols, 80)
          /\ ResizeListener(last'.sess) \in listeners']_vars

(* C18 witness: a debounced fit of a mounted session yields no geometry,   *)
(* and the session is still subscribed.                                    *)
C18_Witness ==
  /\ last.act = "TimerFire"
  /\ last.arg = Undefined
  /\ phase[1] = "mounted"
  /\ ResizeListener(1) \in listeners

C20_SameHandlerDetached ==
  last.act \in {"onFocusOut", "Unmount"} => UnloadHandlers(last.sess) = {}

====
